---- MODULE Spec2Model ----
(***************************************************************************)
(* Model of the online-judge repository.                                   *)
(*                                                                         *)
(* Two programs are modelled:                                              *)
(*  - the process-sandbox judge (cmd/judge/main.go, second program of the  *)
(*    file, lines 165-441): POST /submit -> saveCode -> runCodeInIsolate;  *)
(*  - the container-sandbox judge (unnamed/part_003 and the first program  *)
(*    of cmd/judge/main.go, lines 1-163): POST /submit ->                  *)
(*    executeWithDocker.                                                   *)
(* Every external command (isolate, cp, gcc, ...) and every Docker API     *)
(* call is one step whose outcome (error or not, bytes produced) is chosen *)
(* by the environment.                                                     *)
(***************************************************************************)
EXTENDS Integers, Sequences, FiniteSets, TLC

\* ------------------------------------------------------------------ bounds

\* Number of concurrent POST /submit requests of the process-sandbox judge.
NumSubmissions == 2

\* The requests arrive within one clock second: time.Now().Unix() returns
\* ArrivalSecond to each of them.
ArrivalSecond == 0

Procs == 1..NumSubmissions

\* Longest string given to sanitizeOutput when the function is checked alone.
MaxOutputLen == 3

\* ------------------------------------------- process-sandbox judge: inputs

\* Language identifiers sent by clients; "ruby" stands for any identifier the
\* switch statements do not know.
Languages == {"c", "cpp", "python", "java", "ruby"}

ValidLimits == [cpu |-> 1, wall |-> 2, mem |-> 64]

\* One representative per way of being invalid: cpu <= 0, wall <= 0,
\* mem <= 0, wall < cpu.
InvalidLimitChoices ==
    { [cpu |-> 0, wall |-> 2, mem |-> 64],
      [cpu |-> 1, wall |-> 0 - 1, mem |-> 64],
      [cpu |-> 1, wall |-> 2, mem |-> 0],
      [cpu |-> 2, wall |-> 1, mem |-> 64] }

\* Request bodies that ShouldBindJSON accepts (the struct has no binding tags).
Submissions ==
    { [Language |-> l, Limits |-> ValidLimits] : l \in Languages }
    \cup { [Language |-> "python", Limits |-> l] : l \in InvalidLimitChoices }

\* The request under study (handler 1) carries any submission; the requests
\* running concurrently with it are well-formed python submissions.
BackgroundSubmissions == { [Language |-> "python", Limits |-> ValidLimits] }

SubmissionsOf(p) == IF p = 1 THEN Submissions ELSE BackgroundSubmissions

NoSubmission == [Language |-> "", Limits |-> [cpu |-> 0, wall |-> 0, mem |-> 0]]

\* What the compiler, the sandboxed program and isolate may write.
CompilerStderr == {"", "main.c:1: error"}
ProgramStdout == {"out"}
ProgramStderr == {"err"}

\* ---------------------------------------------------- ExecutionResult type

\* ExecutionResult{}: the zero value of the struct.
EmptyResult ==
    [Message |-> "", Status |-> "", Stdout |-> "", Stderr |-> "",
     CompileOutput |-> "", Time |-> "", Memory |-> 0]

\* getExtension
getExtension(language) ==
    CASE language = "c" -> "c"
      [] language = "cpp" -> "cpp"
      [] language = "python" -> "py"
      [] language = "java" -> "java"
      [] OTHER -> "txt"

\* boxId := "0"
BoxId == "0"

BoxIds == {BoxId}

\* The build command of a language in runCodeInIsolate's switch; "" = none.
BuildCommand(language) ==
    CASE language = "c" -> "gcc"
      [] language = "cpp" -> "g++"
      [] language = "java" -> "javac"
      [] OTHER -> ""

\* The languages with a case in runCodeInIsolate's switch.
IsolateSupported(language) == language \in {"c", "cpp", "python", "java"}

\* ------------------------------------------------ isolate metadata records

\* The meta file is a list of key:value lines, modelled as the record of the
\* values of the keys the code reads; a key that is not in the file has the
\* value "" (what the map lookup and the unassigned maxTime give).
NoMeta == [absent |-> TRUE]

MetaRecords ==
    { [time |-> "0.010", maxrss |-> "100", status |-> "", message |-> ""],
      [time |-> "2.100", maxrss |-> "100", status |-> "TO",
       message |-> "Time limit exceeded"],
      [time |-> "0.010", maxrss |-> "x", status |-> "", message |-> ""] }

\* strconv.Atoi on the values that occur; the error is discarded by the
\* caller, which then keeps the 0 returned with it.
Atoi(s) ==
    CASE s = "100" -> 100
      [] OTHER -> 0

VARIABLES
    pc,          \* position of each request handler
    submission,  \* the bound request body
    filename,    \* saveCode's file name: <<timestamp, extension>>
    result,      \* runCodeInIsolate's result variable
    retErr,      \* the error runCodeInIsolate is about to return ("" = nil)
    stdoutBuf,   \* cmd.Stdout buffer of the run
    stderrBuf,   \* cmd.Stderr buffer of the run
    execLog,     \* the steps each call has executed on the sandbox, in order:
                 \* [cmd, ok (did it succeed), out (the compiler's stderr)]
    response,    \* the HTTP response written by the handler
    files,       \* the staging directory: the file names written
    box,         \* per box id: is the sandbox initialised
    meta         \* per box id: the metadata file, or NoMeta

\* ----------------------------------------- container-sandbox judge: inputs

\* time_limit takes the non-zero values of -1..MaxTimeLimit (binding:"required"
\* rejects 0, nothing rejects a negative number).
MaxTimeLimit == 1

\* The clock of the wait runs up to the largest limit.
MaxElapsed == MaxTimeLimit

\* Longest time, in seconds, that creating, starting and attaching to the
\* container and sending the input may take together.
MaxSetup == 1

\* The two versions of executeWithDocker in the repository.
DockerSources == {"part_003", "cmd/judge/main.go"}

DockerLanguages == {"python", "cpp", "ruby"}

\* Strings that are sanitized or compared are sequences of character codes:
\* 65 "A", 66 "B", 32 space, 10 newline, 0 and 1 control bytes of the log
\* stream's frame header.
ExpectedOutputs == { <<65>>, <<65, 10>> }

RawLogs == { <<65>>, <<1, 0, 65, 10>>, <<66>> }

\* 0: normal exit; 1: non-zero exit; 137: killed by a signal (128 + 9).
ExitCodes == {0, 1, 137}

TimeLimits == (-1..MaxTimeLimit) \ {0}

MemoryLimits == {64}

\* Request bodies that ShouldBindJSON accepts (every field required).
DockerSubmissions ==
    [Language : DockerLanguages, Output : ExpectedOutputs,
     TimeLimit : TimeLimits, MemoryLimit : MemoryLimits]

NoDockerSubmission ==
    [Language |-> "", Output |-> <<>>, TimeLimit |-> 0, MemoryLimit |-> 0]

\* DockerImage with a default branch that falls back to the python image.
DockerImage_DefaultPython(language) ==
    CASE language = "cpp" -> "gcc:latest"
      [] OTHER -> "python-exec"

\* The image chosen by the language switch; "" is the default branch.
DockerImage(language) ==
    CASE language = "python" -> "python-exec"
      [] language = "cpp" -> "gcc:latest"
      [] OTHER -> ""

\* KeepRune letting the tab through as well.
KeepRune_KeepsTab(r) == (r >= 32 /\ r <= 126) \/ r = 10 \/ r = 13 \/ r = 9

\* The function passed to strings.Map keeps these runes and drops the others.
KeepRune(r) == (r >= 32 /\ r <= 126) \/ r = 10 \/ r = 13

\* unicode.IsSpace on the Latin-1 range, as strings.TrimSpace uses it.
IsSpace(r) == r \in {9, 10, 11, 12, 13, 32, 133, 160}

RECURSIVE TrimLeft(_)
TrimLeft(s) ==
    IF s # <<>> /\ IsSpace(Head(s)) THEN TrimLeft(Tail(s)) ELSE s

RECURSIVE TrimRight(_)
TrimRight(s) ==
    IF s # <<>> /\ IsSpace(s[Len(s)])
    THEN TrimRight(SubSeq(s, 1, Len(s) - 1))
    ELSE s

\* strings.TrimSpace
TrimSpace(s) == TrimRight(TrimLeft(s))

\* sanitizeOutput trimming before it drops the runes.
sanitizeOutput_TrimBeforeMap(output) == SelectSeq(TrimSpace(output), KeepRune)

\* sanitizeOutput
sanitizeOutput(output) == TrimSpace(SelectSeq(output, KeepRune))

\* The comparison that ends executeWithDocker.
Verdict(cleanOut, expected) ==
    IF cleanOut = expected THEN "Accepted" ELSE "Wrong Answer"

VARIABLES
    variant,      \* the version of executeWithDocker serving the request
                  \* ("" before the request arrives)
    dpc,          \* position of the handler
    dsub,         \* the bound request body
    container,    \* the container of this call, as the daemon holds it
    setupTime,    \* seconds spent from ContainerCreate to hijackedResp.Close()
    elapsed,      \* seconds since start := time.Now()
    execTime,     \* time.Since(start)
    waitErr,      \* the error received from errCh ("" = none)
    logStream,    \* the bytes behind the reader ContainerLogs returned
    cleanOutput,  \* sanitizeOutput(string(output))
    dockerLog,    \* the Docker API calls made, in order
    dresponse     \* the HTTP response written by handleSubmission

\* ------------------------------------------------- sanitizeOutput alone

\* Character codes of the strings sanitizeOutput is applied to: 1 a control
\* byte, 9 tab, 10 newline, 13 carriage return, 32 space, 65 "A", 200 a rune
\* above the ASCII range.
OutputChars == {1, 9, 10, 13, 32, 65, 200}

RECURSIVE StringsOfLen(_)
StringsOfLen(n) ==
    IF n = 0 THEN { <<>> }
    ELSE { Append(s, c) : s \in StringsOfLen(n - 1), c \in OutputChars }

\* The outputs a container may produce, up to MaxOutputLen characters.
Outputs == UNION { StringsOfLen(n) : n \in 0..MaxOutputLen }

VARIABLES
    sanPc,       \* "off": no call under study; "start", "once", "twice"
    sanInput,    \* the argument of the first call of sanitizeOutput
    sanOutput,   \* sanitizeOutput(sanInput)
    sanAgain     \* sanitizeOutput(sanOutput)

sanitizeVars == <<sanPc, sanInput, sanOutput, sanAgain>>

\* ------------------------------- executeWithDocker on a pair of submissions

VARIABLES
    memPc,       \* "off": no pair under study; "start", "first", "done"
    memInput,    \* the version, the submission, the memory limit of the
                 \* second submission and the outcomes both calls meet
    memResults   \* what the two calls of executeWithDocker did and returned

memoryVars == <<memPc, memInput, memResults>>

dockerVars ==
    <<variant, dpc, dsub, container, setupTime, elapsed, execTime, waitErr, logStream,
      cleanOutput, dockerLog, dresponse>>

isolateVars ==
    <<pc, submission, filename, result, retErr, stdoutBuf, stderrBuf,
      execLog, response, files, box, meta>>

vars == <<isolateVars, dockerVars, sanitizeVars, memoryVars>>

NoFile == <<>>
NoResponse == [code |-> 0]

InitIsolate ==
    /\ pc = [p \in Procs |-> "idle"]
    /\ submission = [p \in Procs |-> NoSubmission]
    /\ filename = [p \in Procs |-> NoFile]
    /\ result = [p \in Procs |-> EmptyResult]
    /\ retErr = [p \in Procs |-> ""]
    /\ stdoutBuf = [p \in Procs |-> ""]
    /\ stderrBuf = [p \in Procs |-> ""]
    /\ execLog = [p \in Procs |-> <<>>]
    /\ response = [p \in Procs |-> NoResponse]
    /\ files = {}
    /\ box = [b \in BoxIds |-> FALSE]
    /\ meta = [b \in BoxIds |-> NoMeta]

\* One entry of execLog.
Entry(cmd, ok, out) == [cmd |-> cmd, ok |-> ok, out |-> out]

\* c.JSON(code, body)
ErrorBody(message) == [message |-> message, status |-> "error"]

\* POST /submit, up to the call of runCodeInIsolate: ShouldBindJSON, saveCode.
HandleSubmit(p) ==
    /\ UNCHANGED <<dockerVars, sanitizeVars, memoryVars>>
    /\ pc[p] = "idle"
    /\ UNCHANGED <<result, retErr, stdoutBuf, stderrBuf, execLog, box, meta>>
    /\ \/ \* ShouldBindJSON fails
          /\ response' = [response EXCEPT ![p] =
                 [code |-> 400, body |-> ErrorBody("Invalid request body")]]
          /\ pc' = [pc EXCEPT ![p] = "done"]
          /\ UNCHANGED <<submission, filename, files>>
       \/ \E s \in SubmissionsOf(p), writeOk \in BOOLEAN :
          LET timestamp == ArrivalSecond
              name == <<timestamp, getExtension(s.Language)>> IN
          /\ submission' = [submission EXCEPT ![p] = s]
          /\ IF writeOk
             THEN /\ files' = files \cup {name}
                  /\ filename' = [filename EXCEPT ![p] = name]
                  /\ pc' = [pc EXCEPT ![p] = "init"]
                  /\ UNCHANGED response
             ELSE /\ response' = [response EXCEPT ![p] =
                         [code |-> 500, body |-> ErrorBody("Failed to save code")]]
                  /\ pc' = [pc EXCEPT ![p] = "done"]
                  /\ UNCHANGED <<filename, files>>

\* The handler's code after runCodeInIsolate returned (r, err).
Respond(r, err) ==
    IF err # ""
    THEN [code |-> 500, body |-> ErrorBody(err)]
    ELSE [code |-> 200, body |-> r]

\* exec.Command("isolate", "--init", "--box-id", boxId).Run()
IsolateInit(p) ==
    /\ UNCHANGED <<dockerVars, sanitizeVars, memoryVars>>
    /\ pc[p] = "init"
    /\ UNCHANGED <<submission, filename, stdoutBuf, stderrBuf, files, meta>>
    /\ \E ok \in BOOLEAN :
       /\ execLog' = [execLog EXCEPT ![p] = Append(@, Entry("init", ok, ""))]
       /\ IF ok
          THEN /\ box' = [box EXCEPT ![BoxId] = TRUE]
               /\ pc' = [pc EXCEPT ![p] = "copy"]
               /\ UNCHANGED <<result, retErr, response>>
          ELSE \* return before the defer statement: no cleanup is registered
               /\ response' = [response EXCEPT ![p] =
                      Respond(EmptyResult, "failed to initialize sandbox")]
               /\ result' = [result EXCEPT ![p] = EmptyResult]
               /\ retErr' = [retErr EXCEPT ![p] = "failed to initialize sandbox"]
               /\ pc' = [pc EXCEPT ![p] = "done"]
               /\ UNCHANGED box

\* AfterCopy with the default branch returning past the cleanup.
AfterCopy_DefaultSkipsCleanup(language) ==
    IF ~IsolateSupported(language) THEN "done"
    ELSE IF BuildCommand(language) # "" THEN "compile"
    ELSE "run"

\* Where the language switch sends a call whose copy succeeded.
AfterCopy(language) ==
    IF ~IsolateSupported(language) THEN "cleanup"
    ELSE IF BuildCommand(language) # "" THEN "compile"
    ELSE "run"

\* exec.Command("cp", filename, codeFilePath).Run(), then the language switch
\* up to its first external command.
CopyToBox(p) ==
    /\ UNCHANGED <<dockerVars, sanitizeVars, memoryVars>>
    /\ pc[p] = "copy"
    /\ UNCHANGED <<submission, filename, stdoutBuf, stderrBuf, response,
                   files, box, meta>>
    /\ \E ok \in BOOLEAN :
       /\ execLog' = [execLog EXCEPT ![p] = Append(@, Entry("cp", ok, ""))]
       /\ IF ~ok
          THEN /\ result' = [result EXCEPT ![p] = EmptyResult]
               /\ retErr' = [retErr EXCEPT ![p] = "failed to copy code to sandbox"]
               /\ pc' = [pc EXCEPT ![p] = "cleanup"]
          ELSE /\ pc' = [pc EXCEPT ![p] = AfterCopy(submission[p].Language)]
               /\ IF IsolateSupported(submission[p].Language)
                  THEN UNCHANGED <<result, retErr>>
                  ELSE /\ result' = [result EXCEPT ![p] = EmptyResult]
                       /\ retErr' = [retErr EXCEPT ![p] = "unsupported language"]

\* AfterCompileError without the return: the call goes on to the run.
AfterCompileError_FallsThrough == "run"

\* Where a call goes after its compiler failed.
AfterCompileError == "cleanup"

\* gcc / g++ / javac on the copied source, stderr captured in compileOutput.
Compile(p) ==
    /\ UNCHANGED <<dockerVars, sanitizeVars, memoryVars>>
    /\ pc[p] = "compile"
    /\ UNCHANGED <<submission, filename, retErr, stdoutBuf, stderrBuf, response,
                   files, box, meta>>
    /\ \E ok \in BOOLEAN, compileOutput \in CompilerStderr :
       /\ execLog' = [execLog EXCEPT ![p] =
              Append(@, Entry(BuildCommand(submission[p].Language), ok,
                              IF ok THEN "" ELSE compileOutput))]
       /\ IF ~ok
          THEN /\ result' = [result EXCEPT ![p] =
                      [@ EXCEPT !.Status = "compilation_error",
                                !.CompileOutput = compileOutput]]
               /\ pc' = [pc EXCEPT ![p] = AfterCompileError]
          ELSE /\ pc' = [pc EXCEPT ![p] = "run"]
               /\ UNCHANGED result

\* AfterRunError running the command again.
AfterRunError_Retries == "run"

\* Where a call goes when isolate --run failed: it returns, which runs the
\* deferred cleanup.
AfterRunError == "cleanup"

\* isolate --run ... with the input on stdin; isolate writes the meta file.
Run(p) ==
    /\ UNCHANGED <<dockerVars, sanitizeVars, memoryVars>>
    /\ pc[p] = "run"
    /\ UNCHANGED <<submission, filename, retErr, response, files, box>>
    /\ \E ok \in BOOLEAN, out \in ProgramStdout, err \in ProgramStderr,
          m \in MetaRecords :
       /\ execLog' = [execLog EXCEPT ![p] = Append(@, Entry("run", ok, ""))]
       /\ meta' = [meta EXCEPT ![BoxId] = m]
       /\ stdoutBuf' = [stdoutBuf EXCEPT ![p] = out]
       /\ stderrBuf' = [stderrBuf EXCEPT ![p] = err]
       /\ IF ~ok
          THEN /\ result' = [result EXCEPT ![p] = [@ EXCEPT !.Stderr = err]]
               /\ pc' = [pc EXCEPT ![p] = AfterRunError]
          ELSE /\ pc' = [pc EXCEPT ![p] = "readMeta"]
               /\ UNCHANGED result

\* os.ReadFile(metaFilePath), the parse loop and "Fill result fields".
ReadMeta(p) ==
    /\ UNCHANGED <<dockerVars, sanitizeVars, memoryVars>>
    /\ pc[p] = "readMeta"
    /\ UNCHANGED <<submission, filename, stdoutBuf, stderrBuf,
                   response, files, box, meta>>
    /\ \E ok \in BOOLEAN :
       /\ (meta[BoxId] = NoMeta) => ~ok
       /\ execLog' = [execLog EXCEPT ![p] = Append(@, Entry("readMeta", ok, ""))]
       /\ IF ~ok
          THEN /\ result' = [result EXCEPT ![p] = EmptyResult]
               /\ retErr' = [retErr EXCEPT ![p] = "failed to read metadata file"]
               /\ pc' = [pc EXCEPT ![p] = "cleanup"]
          ELSE /\ result' = [result EXCEPT ![p] =
                      [@ EXCEPT !.Stdout = stdoutBuf[p],
                                !.Stderr = stderrBuf[p],
                                !.Time = meta[BoxId].time,
                                !.Memory = Atoi(meta[BoxId].maxrss)]]
               /\ pc' = [pc EXCEPT ![p] = "getMetadata"]
               /\ UNCHANGED retErr

\* getMetadata(metaFilePath) and the status/message assignment.
GetMetadata(p) ==
    /\ UNCHANGED <<dockerVars, sanitizeVars, memoryVars>>
    /\ pc[p] = "getMetadata"
    /\ UNCHANGED <<submission, filename, retErr, stdoutBuf, stderrBuf,
                   response, files, box, meta>>
    /\ \E ok \in BOOLEAN :
       /\ (meta[BoxId] = NoMeta) => ~ok
       /\ execLog' = [execLog EXCEPT ![p] = Append(@, Entry("getMetadata", ok, ""))]
       /\ pc' = [pc EXCEPT ![p] = "cleanup"]
       /\ IF ~ok
          THEN UNCHANGED result
          ELSE result' = [result EXCEPT ![p] =
                   [@ EXCEPT !.Status = meta[BoxId].status,
                             !.Message = meta[BoxId].message]]

\* The deferred function: isolate --cleanup --box-id boxId (its error is
\* ignored); then runCodeInIsolate returns and the handler writes the response.
Cleanup(p) ==
    /\ UNCHANGED <<dockerVars, sanitizeVars, memoryVars>>
    /\ pc[p] = "cleanup"
    /\ execLog' = [execLog EXCEPT ![p] = Append(@, Entry("cleanup", TRUE, ""))]
    /\ box' = [box EXCEPT ![BoxId] = FALSE]
    /\ meta' = [meta EXCEPT ![BoxId] = NoMeta]
    /\ response' = [response EXCEPT ![p] = Respond(result[p], retErr[p])]
    /\ pc' = [pc EXCEPT ![p] = "done"]
    /\ UNCHANGED <<submission, filename, result, retErr, stdoutBuf, stderrBuf,
                   files>>

NextIsolate ==
    \/ \E p \in Procs : HandleSubmit(p)
    \/ \E p \in Procs : IsolateInit(p)
    \/ \E p \in Procs : CopyToBox(p)
    \/ \E p \in Procs : Compile(p)
    \/ \E p \in Procs : Run(p)
    \/ \E p \in Procs : ReadMeta(p)
    \/ \E p \in Procs : GetMetadata(p)
    \/ \E p \in Procs : Cleanup(p)

\* ------------------------------------------------ container-sandbox judge

NoContainer == [state |-> "none", exitCode |-> 0, logs |-> <<>>]

InitDocker ==
    /\ variant = ""
    /\ dpc = "idle"
    /\ dsub = NoDockerSubmission
    /\ container = NoContainer
    /\ setupTime = 0
    /\ elapsed = 0
    /\ execTime = 0
    /\ waitErr = ""
    /\ logStream = <<>>
    /\ cleanOutput = <<>>
    /\ dockerLog = <<>>
    /\ dresponse = NoResponse

\* executeWithDocker returns (result, execTime, output) and handleSubmission
\* writes them as the response.
DockerReturn(res, t, output) ==
    /\ dresponse' = [code |-> 200, result |-> res, execution_time |-> t,
                     output |-> output]
    /\ dpc' = "done"

\* handleSubmission and executeWithDocker up to the language switch, in
\* either version of the source.
HandleDockerSubmit ==
    /\ UNCHANGED <<isolateVars, sanitizeVars, memoryVars, setupTime>>
    /\ dpc = "idle"
    /\ UNCHANGED <<container, elapsed, execTime, waitErr, logStream,
                   cleanOutput, dockerLog>>
    /\ \E v \in DockerSources :
       /\ variant' = v
       /\ \/ \* ShouldBindJSON fails
             /\ dresponse' = [code |-> 400, error |-> "bind"]
             /\ dpc' = "done"
             /\ UNCHANGED dsub
          \/ \E s \in DockerSubmissions, clientOk \in BOOLEAN :
             /\ dsub' = s
             /\ IF ~clientOk
                THEN DockerReturn("Error initializing Docker client", 0, <<>>)
                ELSE IF DockerImage(s.Language) = ""
                THEN DockerReturn("Unsupported language", 0, <<>>)
                ELSE /\ dpc' = "create"
                     /\ UNCHANGED dresponse

\* cli.ContainerCreate with AutoRemove: true
DockerCreate ==
    /\ UNCHANGED <<isolateVars, sanitizeVars, memoryVars, setupTime>>
    /\ dpc = "create"
    /\ UNCHANGED <<variant, dsub, elapsed, execTime, waitErr, logStream,
                   cleanOutput>>
    /\ dockerLog' = Append(dockerLog, "create")
    /\ \E ok \in BOOLEAN :
       IF ok
       THEN /\ container' = [container EXCEPT !.state = "created"]
            /\ dpc' = "start"
            /\ UNCHANGED dresponse
       ELSE /\ DockerReturn("Error creating Docker container", 0, <<>>)
            /\ UNCHANGED container

\* cli.ContainerStart
DockerStart ==
    /\ UNCHANGED <<isolateVars, sanitizeVars, memoryVars, setupTime>>
    /\ dpc = "start"
    /\ UNCHANGED <<variant, dsub, elapsed, execTime, waitErr, logStream,
                   cleanOutput>>
    /\ dockerLog' = Append(dockerLog, "start")
    /\ \E ok \in BOOLEAN :
       IF ok
       THEN /\ container' = [container EXCEPT !.state = "running"]
            /\ dpc' = "attach"
            /\ UNCHANGED dresponse
       ELSE /\ DockerReturn("Error starting Docker container", 0, <<>>)
            /\ UNCHANGED container

\* cli.ContainerAttach
DockerAttach ==
    /\ UNCHANGED <<isolateVars, sanitizeVars, memoryVars, setupTime>>
    /\ dpc = "attach"
    /\ UNCHANGED <<variant, dsub, container, elapsed, execTime, waitErr,
                   logStream, cleanOutput>>
    /\ dockerLog' = Append(dockerLog, "attach")
    /\ \E ok \in BOOLEAN :
       IF ok
       THEN /\ dpc' = "input"
            /\ UNCHANGED dresponse
       ELSE DockerReturn("Error attaching to Docker container", 0, <<>>)

\* A second passes while the container is created, started, attached to or
\* sent its input.
SetupTick ==
    /\ UNCHANGED <<isolateVars, sanitizeVars, memoryVars>>
    /\ dpc \in {"create", "start", "attach", "input"}
    /\ setupTime < MaxSetup
    /\ setupTime' = setupTime + 1
    /\ UNCHANGED <<variant, dpc, dsub, container, elapsed, execTime, waitErr,
                   logStream, cleanOutput, dockerLog, dresponse>>

\* StartClock with time.Now() taken before ContainerCreate.
StartClock_BeforeCreate(setup) == setup

\* The seconds already on the clock of the wait when it starts: the context
\* and start := time.Now() are created after the input was sent, whatever
\* time the setup took.
StartClock(setup) == 0

\* Does this version return when io.Copy fails?
ChecksCopyError(v) == v = "cmd/judge/main.go"

\* io.Copy of the input, hijackedResp.Close(), context.WithTimeout and
\* start := time.Now().
DockerSendInput ==
    /\ UNCHANGED <<isolateVars, sanitizeVars, memoryVars, setupTime>>
    /\ dpc = "input"
    /\ UNCHANGED <<variant, dsub, container, execTime, waitErr, logStream,
                   cleanOutput>>
    /\ dockerLog' = Append(dockerLog, "input")
    /\ \E ok \in BOOLEAN :
       IF ~ok /\ ChecksCopyError(variant)
       THEN /\ DockerReturn("Error sending input to container", 0, <<>>)
            /\ UNCHANGED elapsed
       ELSE /\ elapsed' = StartClock(setupTime)
            /\ dpc' = "wait"
            /\ UNCHANGED dresponse

\* The daemon: the container's process ends by itself.
ContainerExit ==
    /\ UNCHANGED <<isolateVars, sanitizeVars, memoryVars, setupTime>>
    /\ container.state = "running"
    /\ \E code \in ExitCodes, logs \in RawLogs :
       container' = [state |-> "exited", exitCode |-> code, logs |-> logs]
    /\ UNCHANGED <<variant, dpc, dsub, elapsed, execTime, waitErr, logStream,
                   cleanOutput, dockerLog, dresponse>>

\* The daemon: AutoRemove removes the container once it has exited.
AutoRemove ==
    /\ UNCHANGED <<isolateVars, sanitizeVars, memoryVars, setupTime>>
    /\ container.state = "exited"
    /\ container' = [container EXCEPT !.state = "removed"]
    /\ UNCHANGED <<variant, dpc, dsub, elapsed, execTime, waitErr, logStream,
                   cleanOutput, dockerLog, dresponse>>

\* The wait's context has passed its deadline of TimeLimit seconds.
DeadlinePassed == elapsed >= dsub.TimeLimit

\* statusCh has a value for the select: the container is not running and the
\* daemon's answer came before the deadline.
StatusReady == container.state \in {"exited", "removed"} /\ ~DeadlinePassed

\* A second passes while the handler is blocked in the select.
DockerTick ==
    /\ UNCHANGED <<isolateVars, sanitizeVars, memoryVars, setupTime>>
    /\ dpc = "wait"
    /\ ~StatusReady
    /\ elapsed < MaxElapsed
    /\ elapsed' = elapsed + 1
    /\ UNCHANGED <<variant, dpc, dsub, container, execTime, waitErr,
                   logStream, cleanOutput, dockerLog, dresponse>>

\* Does this version remove the container after a wait error / before the
\* comparison?
RemovesContainer(v) == v = "part_003"

\* What executeWithDocker returns for an error err received from errCh.
WaitErrorResult(err) ==
    CASE err = "context deadline exceeded" ->
             "Error waiting for Docker container: context deadline exceeded"
      [] err = "No such container" ->
             "Error waiting for Docker container: No such container"
      [] OTHER -> "Error waiting for Docker container: daemon error"

\* cli.ContainerWait(ctx, ..., WaitConditionNotRunning) and the select.
DockerWait ==
    /\ UNCHANGED <<isolateVars, sanitizeVars, memoryVars, setupTime>>
    /\ dpc = "wait"
    /\ UNCHANGED <<variant, dsub, container, elapsed, logStream, cleanOutput>>
    /\ dockerLog' = Append(dockerLog, "wait")
    /\ \/ \* case <-statusCh: the container is not running
          /\ StatusReady
          /\ execTime' = elapsed
          /\ dpc' = "logs"
          /\ UNCHANGED <<waitErr, dresponse>>
       \/ \* case err := <-errCh
          \E err \in {"context deadline exceeded", "No such container",
                      "daemon error"} :
          /\ err = "context deadline exceeded" => DeadlinePassed
          /\ err = "No such container" => container.state = "removed"
          /\ waitErr' = err
          /\ UNCHANGED execTime
          /\ IF RemovesContainer(variant)
             THEN /\ dpc' = "removeAfterWaitError"
                  /\ UNCHANGED dresponse
             ELSE DockerReturn(WaitErrorResult(err), 0, <<>>)

\* The daemon's part of ContainerRemove with Force: true.
ForceRemoved(c) == [c EXCEPT !.state = "removed"]

\* part_003: cli.ContainerRemove in the wait-error branch (its error is
\* dropped), then the return.
DockerRemoveAfterWaitError ==
    /\ UNCHANGED <<isolateVars, sanitizeVars, memoryVars, setupTime>>
    /\ dpc = "removeAfterWaitError"
    /\ UNCHANGED <<variant, dsub, elapsed, execTime, waitErr, logStream,
                   cleanOutput>>
    /\ dockerLog' = Append(dockerLog, "remove")
    /\ \E ok \in BOOLEAN :
       /\ container.state = "removed" => ~ok
       /\ container' = IF ok THEN ForceRemoved(container) ELSE container
    /\ DockerReturn(WaitErrorResult(waitErr), 0, <<>>)

\* cli.ContainerLogs
DockerLogs ==
    /\ UNCHANGED <<isolateVars, sanitizeVars, memoryVars, setupTime>>
    /\ dpc = "logs"
    /\ UNCHANGED <<variant, dsub, container, elapsed, execTime, waitErr,
                   cleanOutput>>
    /\ dockerLog' = Append(dockerLog, "logs")
    /\ \E ok \in BOOLEAN :
       /\ container.state = "removed" => ~ok
       /\ IF ok
          THEN /\ logStream' = container.logs
               /\ dpc' = "read"
               /\ UNCHANGED dresponse
          ELSE /\ DockerReturn("Error fetching container logs", 0, <<>>)
               /\ UNCHANGED logStream

\* ioutil.ReadAll(out) and sanitizeOutput; the version without removal goes
\* on to the comparison and returns.
DockerReadAll ==
    /\ UNCHANGED <<isolateVars, sanitizeVars, memoryVars, setupTime>>
    /\ dpc = "read"
    /\ UNCHANGED <<variant, dsub, container, elapsed, execTime, waitErr,
                   logStream, dockerLog>>
    /\ \E ok \in BOOLEAN :
       IF ~ok
       THEN /\ DockerReturn("Error reading container logs", 0, <<>>)
            /\ UNCHANGED cleanOutput
       ELSE LET clean == sanitizeOutput(logStream) IN
            /\ cleanOutput' = clean
            /\ IF RemovesContainer(variant)
               THEN /\ dpc' = "remove"
                    /\ UNCHANGED dresponse
               ELSE DockerReturn(Verdict(clean, dsub.Output), execTime, clean)

\* part_003: "Ensure the container is removed after execution", then the
\* comparison.
DockerRemove ==
    /\ UNCHANGED <<isolateVars, sanitizeVars, memoryVars, setupTime>>
    /\ dpc = "remove"
    /\ UNCHANGED <<variant, dsub, elapsed, execTime, waitErr, logStream,
                   cleanOutput>>
    /\ dockerLog' = Append(dockerLog, "remove")
    /\ \E ok \in BOOLEAN :
       /\ container.state = "removed" => ~ok
       /\ IF ok
          THEN /\ container' = ForceRemoved(container)
               /\ DockerReturn(Verdict(cleanOutput, dsub.Output), execTime,
                               cleanOutput)
          ELSE /\ DockerReturn("", 0, <<>>)
               /\ UNCHANGED container

NextDocker ==
    \/ HandleDockerSubmit
    \/ DockerCreate
    \/ DockerStart
    \/ DockerAttach
    \/ DockerSendInput
    \/ SetupTick
    \/ ContainerExit
    \/ AutoRemove
    \/ DockerTick
    \/ DockerWait
    \/ DockerRemoveAfterWaitError
    \/ DockerLogs
    \/ DockerReadAll
    \/ DockerRemove

\* ------------------------------------------------- sanitizeOutput alone

\* No call of sanitizeOutput is under study.
InitSanitizeOff ==
    /\ sanPc = "off"
    /\ sanInput = <<>>
    /\ sanOutput = <<>>
    /\ sanAgain = <<>>

\* A call of sanitizeOutput on any output is about to be made.
InitSanitize ==
    /\ sanPc = "start"
    /\ sanInput \in Outputs
    /\ sanOutput = <<>>
    /\ sanAgain = <<>>

\* cleanOutput := sanitizeOutput(string(output))
Sanitize ==
    /\ sanPc = "start"
    /\ sanOutput' = sanitizeOutput(sanInput)
    /\ sanPc' = "once"
    /\ UNCHANGED <<sanInput, sanAgain, isolateVars, dockerVars, memoryVars>>

\* sanitizeOutput applied to a string it has returned.
SanitizeAgain ==
    /\ sanPc = "once"
    /\ sanAgain' = sanitizeOutput(sanOutput)
    /\ sanPc' = "twice"
    /\ UNCHANGED <<sanInput, sanOutput, isolateVars, dockerVars, memoryVars>>

NextSanitize ==
    \/ Sanitize
    \/ SanitizeAgain

\* ------------------------------- executeWithDocker on a pair of submissions

\* memory_limit values of the second submission of a pair (binding:"required"
\* rejects 0, nothing rejects a negative number).
OtherMemoryLimits == {0 - 1, 32, 128}

\* Peak memory use of the submitted program, in MB.
PeakMemory == {16, 100}

\* The calls of executeWithDocker that can return an error, in program order.
ApiCalls ==
    <<"client", "create", "start", "attach", "copy", "wait", "logs", "read",
      "remove">>

ApiCallSet == { ApiCalls[i] : i \in 1..Len(ApiCalls) }

\* What the two calls of a pair meet: per API call whether it succeeds (at
\* most one of them fails), the program's running time, peak memory and
\* output.
Outcomes ==
    { [ok |-> [c \in ApiCallSet |-> c # f], runtime |-> t, peak |-> m,
       logs |-> l] :
        f \in ApiCallSet \cup {"none"}, t \in 0..MaxElapsed,
        m \in PeakMemory, l \in RawLogs }

\* The calls that act on the container (the others build the client and read
\* the stream ContainerLogs returned).
IsContainerCall(c) == c \notin {"client", "read"}

\* HostMemory with the submission's limit as the container's ceiling.
HostMemory_FromSubmission(s) == s.MemoryLimit

\* The memory ceiling ContainerCreate is given: the HostConfig literal sets
\* AutoRemove only, so Resources.Memory is 0, which means no ceiling.
HostMemory(s) == 0

\* The daemon kills a container whose memory use exceeds its ceiling.
OomKilled(ceiling, peak) == ceiling > 0 /\ peak > ceiling

\* executeWithDocker of version v on submission s under outcomes e: the
\* API calls made on the container, the ceiling it was created with, and
\* the three values returned.
executeWithDocker(v, s, e) ==
    LET ceiling == HostMemory(s)
        killed == OomKilled(ceiling, e.peak)
        output == IF killed THEN <<>> ELSE e.logs
        cleanOut == sanitizeOutput(output)
        deadline == ~killed /\ e.runtime >= s.TimeLimit
        Return(n, c, res, t, out) ==
            [ops |-> SelectSeq(SubSeq(ApiCalls, 1, n), IsContainerCall),
             ceiling |-> c, result |-> res,
             execution_time |-> t, output |-> out]
    IN  IF ~e.ok["client"]
        THEN Return(1, 0, "Error initializing Docker client", 0, <<>>)
        ELSE IF DockerImage(s.Language) = ""
        THEN Return(1, 0, "Unsupported language", 0, <<>>)
        ELSE IF ~e.ok["create"]
        THEN Return(2, ceiling, "Error creating Docker container", 0, <<>>)
        ELSE IF ~e.ok["start"]
        THEN Return(3, ceiling, "Error starting Docker container", 0, <<>>)
        ELSE IF ~e.ok["attach"]
        THEN Return(4, ceiling, "Error attaching to Docker container", 0, <<>>)
        ELSE IF ~e.ok["copy"] /\ ChecksCopyError(v)
        THEN Return(5, ceiling, "Error sending input to container", 0, <<>>)
        ELSE IF ~e.ok["wait"] \/ deadline
        THEN LET err == IF ~e.ok["wait"] THEN "daemon error"
                        ELSE "context deadline exceeded"
                 r == Return(6, ceiling, WaitErrorResult(err), 0, <<>>) IN
             IF RemovesContainer(v)
             THEN [r EXCEPT !.ops = Append(@, "remove")]
             ELSE r
        ELSE IF ~e.ok["logs"]
        THEN Return(7, ceiling, "Error fetching container logs", 0, <<>>)
        ELSE IF ~e.ok["read"]
        THEN Return(8, ceiling, "Error reading container logs", 0, <<>>)
        ELSE IF ~RemovesContainer(v)
        THEN Return(8, ceiling, Verdict(cleanOut, s.Output),
                    IF killed THEN 0 ELSE e.runtime, cleanOut)
        ELSE IF ~e.ok["remove"]
        THEN Return(9, ceiling, "", 0, <<>>)
        ELSE Return(9, ceiling, Verdict(cleanOut, s.Output),
                    IF killed THEN 0 ELSE e.runtime, cleanOut)

NoPair == [variant |-> "", sub |-> NoDockerSubmission, other |-> 0]

\* No pair of submissions is under study.
InitMemoryOff ==
    /\ memPc = "off"
    /\ memInput = NoPair
    /\ memResults = <<>>

\* Two submissions that differ only in memory_limit are about to be executed
\* by the same version under the same outcomes.
InitMemory ==
    /\ memPc = "start"
    /\ memInput \in [variant : DockerSources, sub : DockerSubmissions,
                     other : OtherMemoryLimits, env : Outcomes]
    /\ memResults = <<>>

\* handleSubmission calls executeWithDocker(submission).
ExecuteSubmission ==
    /\ memPc = "start"
    /\ memResults' = <<executeWithDocker(memInput.variant, memInput.sub,
                                         memInput.env)>>
    /\ memPc' = "first"
    /\ UNCHANGED <<memInput, isolateVars, dockerVars, sanitizeVars>>

\* The same call for the submission with the other memory_limit.
ExecuteOther ==
    /\ memPc = "first"
    /\ memResults' =
           Append(memResults,
                  executeWithDocker(memInput.variant,
                      [memInput.sub EXCEPT !.MemoryLimit = memInput.other],
                      memInput.env))
    /\ memPc' = "done"
    /\ UNCHANGED <<memInput, isolateVars, dockerVars, sanitizeVars>>

NextMemory ==
    \/ ExecuteSubmission
    \/ ExecuteOther

\* ---------------------------------------------------------------- claims

\* The entries of a call's log with a given command.
Entries(p, cmds) == SelectSeq(execLog[p], LAMBDA e : e.cmd \in cmds)

InitSucceeded(p) == \E i \in 1..Len(execLog[p]) :
                        execLog[p][i].cmd = "init" /\ execLog[p][i].ok

Compilers == {"gcc", "g++", "javac"}

CompileFailed(p) == \E i \in 1..Len(execLog[p]) :
                        execLog[p][i].cmd \in Compilers /\ ~execLog[p][i].ok

\* C1: in every call of runCodeInIsolate, isolate --cleanup is executed at
\* most once; when the call has returned it has been executed exactly once
\* if isolate --init succeeded (and as the last step of the call), and not
\* at all if init failed.
C1_CleanupExactlyOnce ==
    \A p \in Procs :
        LET n == Len(Entries(p, {"cleanup"})) IN
        /\ n <= 1
        /\ ~InitSucceeded(p) => n = 0
        /\ (pc[p] = "done" /\ InitSucceeded(p)) =>
               /\ n = 1
               /\ execLog[p][Len(execLog[p])].cmd = "cleanup"

\* C1 witness: a call whose init succeeded has returned through the
\* compile-error path with its one cleanup done.
C1_Witness ==
    \E p \in Procs :
        /\ pc[p] = "done"
        /\ InitSucceeded(p)
        /\ CompileFailed(p)
        /\ Len(Entries(p, {"cleanup"})) = 1

\* The submissions between their successful init and their own cleanup.
HoldsBox(p) ==
    pc[p] \in {"copy", "compile", "run", "readMeta", "getMetadata", "cleanup"}

\* The box identifier a call uses.
BoxIdOf(p) == BoxId

\* C2: when executeWithDocker has returned, a container it created has been
\* removed by a ContainerRemove call of the function itself.
C2_ContainerReleased ==
    (dpc = "done" /\ container.state # "none") =>
        \E i \in 1..Len(dockerLog) : dockerLog[i] = "remove"

\* C3: no two submissions are both between their init and their cleanup
\* with the same box identifier.
C3_ExclusiveBox ==
    \A p, q \in Procs :
        (p # q /\ HoldsBox(p) /\ HoldsBox(q)) => BoxIdOf(p) # BoxIdOf(q)

\* C4: every copy, compile, run and metadata-read step acts on a box that is
\* initialised (no cleanup of it has run since its init), and an init
\* succeeds only on a box that is not initialised (its previous cleanup has
\* completed).
C4_ReleaseAfterUse ==
    [][\A p \in Procs :
          /\ (pc[p] \in {"copy", "compile", "run", "readMeta", "getMetadata"}
              /\ pc'[p] # pc[p]) => box[BoxIdOf(p)]
          /\ (pc[p] = "init" /\ pc'[p] = "copy") => ~box[BoxIdOf(p)]]_vars

\* C5: a call whose compiler failed never invokes isolate --run and returns
\* status compilation_error with the compiler's stderr as compile output and
\* empty stdout and stderr; the compiled languages are built with their own
\* compiler and a python submission is never built.
C5_CompileErrorShortCircuits ==
    \A p \in Procs :
        /\ CompileFailed(p) =>
               /\ Entries(p, {"run"}) = <<>>
               /\ pc[p] = "done" =>
                      response[p] =
                          [code |-> 200,
                           body |-> [EmptyResult EXCEPT
                               !.Status = "compilation_error",
                               !.CompileOutput = Entries(p, Compilers)[1].out]]
        /\ submission[p].Language = "python" => Entries(p, Compilers) = <<>>
        /\ \A i \in 1..Len(execLog[p]) :
               execLog[p][i].cmd \in Compilers =>
                   /\ submission[p].Language \in {"c", "cpp", "java"}
                   /\ execLog[p][i].cmd = BuildCommand(submission[p].Language)

\* C5 witness: a java submission whose javac failed with a diagnostic has
\* been answered.
C5_Witness ==
    \E p \in Procs :
        /\ pc[p] = "done"
        /\ submission[p].Language = "java"
        /\ CompileFailed(p)
        /\ response[p].body.CompileOutput = "main.c:1: error"

\* The limits the specification calls valid.
LimitsValid(l) == l.cpu > 0 /\ l.wall > 0 /\ l.mem > 0 /\ l.wall >= l.cpu

\* C6: a submission with invalid limits has no staging file and no sandbox
\* step, and is answered with InvalidLimits.
C6_InvalidLimitsRejected ==
    \A p \in Procs :
        (submission[p] # NoSubmission /\ ~LimitsValid(submission[p].Limits)) =>
            /\ filename[p] = NoFile
            /\ execLog[p] = <<>>
            /\ pc[p] = "done" =>
                   response[p] = [code |-> 400, body |-> ErrorBody("InvalidLimits")]

\* C7: a submission with an unrecognised language has no staging file and
\* isolate --init is never executed for it.
C7_UnknownLanguageRejected ==
    \A p \in Procs :
        (submission[p] # NoSubmission
         /\ ~IsolateSupported(submission[p].Language)) =>
            /\ filename[p] = NoFile
            /\ Entries(p, {"init"}) = <<>>

UnsupportedDocker == dsub # NoDockerSubmission /\ dsub.Language \notin {"python", "cpp"}

C9_RuntimeFailurePriority ==
    (dpc = "done" /\ container.state \in {"exited", "removed"}
     /\ container.exitCode # 0) =>
        dresponse.result \notin {"Accepted", "Wrong Answer"}

\* C10: when the wait ended at the deadline, the answer is the
\* time-limit-exceeded verdict and the container is no longer running when
\* the call has returned.
C10_DeadlineVerdict ==
    (dpc = "done" /\ dsub.TimeLimit > 0
     /\ waitErr = "context deadline exceeded") =>
        /\ dresponse.result = "Time Limit Exceeded"
        /\ container.state = "removed"

\* Has the call executed a step with command in cmds that failed?
StepFailed(p, cmds) == \E i \in 1..Len(execLog[p]) :
                           execLog[p][i].cmd \in cmds /\ ~execLog[p][i].ok

\* The last step a call has executed ("" before the first).
LastStep(p) ==
    IF execLog[p] = <<>> THEN "" ELSE execLog[p][Len(execLog[p])].cmd

\* C11: every result returned carries a verdict: a 200 response of the
\* process-sandbox judge has a non-empty status, and an answer of
\* executeWithDocker has a non-empty result.
C11_ResultHasVerdict ==
    /\ \A p \in Procs :
           response[p].code = 200 => response[p].body.Status # ""
    /\ (dpc = "done" /\ dresponse.code = 200) => dresponse.result # ""

\* C12: a call whose init succeeded and whose copy, run or metadata read
\* failed is answered with a full result: a verdict, the captured stdout and
\* stderr, and never an error body without a result.
C12_FullResultAfterInit ==
    \A p \in Procs :
        (pc[p] = "done" /\ InitSucceeded(p)
         /\ StepFailed(p, {"cp", "run", "readMeta"})) =>
            /\ response[p].code = 200
            /\ response[p].body.Status # ""
            /\ response[p].body.Stdout = stdoutBuf[p]
            /\ response[p].body.Stderr = stderrBuf[p]

\* A metadata record lacks a required field or holds a malformed value.
MetaMalformed(m) ==
    \/ m.time = ""
    \/ m.status = ""
    \/ m.maxrss \notin {"100"}

\* C13: when the metadata record a call has read lacks a required field or
\* holds a malformed value, the call returns a sandbox error; its result
\* never carries memory 0, an empty time or an empty status.
C13_MalformedMetaIsError ==
    \A p \in Procs :
        (pc[p] = "cleanup" /\ LastStep(p) = "getMetadata"
         /\ ~StepFailed(p, {"getMetadata"})
         /\ meta[BoxId] # NoMeta /\ MetaMalformed(meta[BoxId])
         /\ result[p].Time = meta[BoxId].time
         /\ result[p].Memory = Atoi(meta[BoxId].maxrss)) =>
            /\ retErr[p] # ""
            /\ result[p].Memory # 0
            /\ result[p].Time # ""
            /\ result[p].Status # ""

\* C14: when the call answers Accepted or Wrong Answer, the answer is
\* Accepted exactly when the sanitized output and the expected output are
\* equal after removing the trailing whitespace of each.
C14_AcceptedUpToTrailingWhitespace ==
    (dpc = "done" /\ dresponse.code = 200
     /\ dresponse.result \in {"Accepted", "Wrong Answer"}) =>
        (dresponse.result = "Accepted"
             <=> TrimRight(cleanOutput) = TrimRight(dsub.Output))

\* C15: sanitizeOutput is idempotent: applied to a string it has returned,
\* it returns that string.
C15_SanitizeIdempotent ==
    sanPc = "twice" => sanAgain = sanOutput

\* C15 witness: both calls have been made on an output from which the first
\* call dropped a control byte and trimmed whitespace.
C15_Witness ==
    /\ sanPc = "twice"
    /\ sanInput = <<32, 1, 65>>
    /\ sanOutput = <<65>>
    /\ sanAgain = <<65>>

\* The place of a command in the lifecycle of a call; the two reads of the
\* metadata file (os.ReadFile, then getMetadata) are the two halves of the
\* metadata step.
StepRank(cmd) ==
    CASE cmd = "init" -> 1
      [] cmd = "cp" -> 2
      [] cmd \in Compilers -> 3
      [] cmd = "run" -> 4
      [] cmd = "readMeta" -> 5
      [] cmd = "getMetadata" -> 6
      [] cmd = "cleanup" -> 7

\* The command that must come right before cmd in a call for a language.
StepBefore(cmd, language) ==
    CASE cmd = "cp" -> "init"
      [] cmd \in Compilers -> "cp"
      [] cmd = "run" ->
            IF language \in {"c", "cpp", "java"}
            THEN CASE language = "c" -> "gcc"
                   [] language = "cpp" -> "g++"
                   [] language = "java" -> "javac"
            ELSE "cp"
      [] cmd = "readMeta" -> "run"
      [] cmd = "getMetadata" -> "readMeta"

\* C18: within a call the steps are executed in the order init, copy, build
\* (compiled languages only), run, metadata read, cleanup; each at most
\* once; every step but the cleanup right after the success of the step
\* before it; nothing after the cleanup.
C18_LifecycleOrder ==
    \A p \in Procs :
        LET log == execLog[p] IN
        /\ log # <<>> => log[1].cmd = "init"
        /\ \A j \in 2..Len(log) :
               /\ StepRank(log[j - 1].cmd) < StepRank(log[j].cmd)
               /\ log[j].cmd # "cleanup" =>
                      /\ log[j - 1].cmd =
                             StepBefore(log[j].cmd, submission[p].Language)
                      /\ log[j - 1].ok
        /\ \A j \in 1..Len(log) :
               log[j].cmd \in Compilers =>
                   submission[p].Language \in {"c", "cpp", "java"}

\* C18 witness: a cpp submission has gone through all the steps: init, cp,
\* g++, run, both reads of the metadata file, cleanup.
C18_Witness ==
    \E p \in Procs :
        /\ pc[p] = "done"
        /\ submission[p].Language = "cpp"
        /\ Len(execLog[p]) = 7
        /\ execLog[p][4].cmd = "run"

\* The Docker API calls of a call that has reached the wait, in order.
SetupCalls == <<"create", "start", "attach", "input", "wait">>

\* C19: the calls are made in the order create, start, attach, input (write
\* and close), wait; the clock of the wait is at zero until the input has
\* been sent and starts at zero when the wait begins, however long the
\* setup took, so that the deadline has not passed when the wait begins and
\* the measured time is the time spent in the wait.
C19_ClockStartsAfterInput ==
    /\ [](/\ \A i \in 1..Len(dockerLog) :
                i <= Len(SetupCalls) => dockerLog[i] = SetupCalls[i]
          /\ dpc \in {"idle", "create", "start", "attach", "input"} =>
                 (elapsed = 0 /\ execTime = 0)
          /\ execTime <= elapsed)
    /\ [][(dpc = "input" /\ dpc' = "wait") =>
              /\ elapsed' = 0
              /\ dsub.TimeLimit > 0 => ~DeadlinePassed']_vars

\* C19 witness: a call whose setup took a second has left the wait with a
\* measured time of zero seconds.
C19_Witness ==
    /\ dpc = "logs"
    /\ setupTime > 0
    /\ dockerLog = SetupCalls
    /\ execTime = 0

\* The verdict a judge gives a run that exceeded its memory limit.
MemoryVerdicts == {"Memory Limit Exceeded", "memory_limit_exceeded", "MLE"}

\* C21: two submissions that differ only in memory_limit make the same
\* Docker API calls on a container created with the same memory ceiling and
\* get the same result, execution time and output, and no call of
\* executeWithDocker returns a memory-limit-exceeded verdict.
C21_MemoryLimitAdvisory ==
    /\ memPc = "done" => memResults[1] = memResults[2]
    /\ \A i \in 1..Len(memResults) : memResults[i].result \notin MemoryVerdicts

\* C21 witness: a program with a peak use of 100 MB has been run to its
\* verdict under the limits 64 MB and 128 MB.
C21_Witness ==
    /\ memPc = "done"
    /\ memInput.variant = "part_003"
    /\ memInput.sub.MemoryLimit = 64
    /\ memInput.other = 128
    /\ memInput.env.peak = 100
    /\ memResults[1].result = "Accepted"
    /\ memResults[2].ops =
           <<"create", "start", "attach", "copy", "wait", "logs", "remove">>

\* The container of the call has exited normally with an output that
\* sanitizes to the expected output, and the wait has returned its status.
ExitedWithExpectedOutput ==
    /\ variant = "part_003"
    /\ container.state \in {"exited", "removed"}
    /\ container.exitCode = 0
    /\ sanitizeOutput(container.logs) = dsub.Output
    /\ waitErr = ""

\* C22: when the daemon's automatic removal has come before the log fetch
\* or before the explicit removal of a container that exited normally with
\* the expected output, the step of the function that meets the removed
\* container still ends in the answer Accepted with that output.
C22_AutoRemovalRaceIsHarmless ==
    [][(ExitedWithExpectedOutput /\ container.state = "removed"
        /\ dpc \in {"logs", "remove"} /\ dpc' = "done") =>
           /\ dresponse'.result = "Accepted"
           /\ dresponse'.output = dsub.Output]_vars

\* The characters the claims allow in a sanitized output, and whitespace.
AllowedChar(c) == c \in (32..126) \cup {10, 13}

Whitespace == {9, 10, 11, 12, 13, 32}

\* C20: the string sanitizeOutput returns holds only characters 32..126,
\* newline and carriage return, neither starts nor ends with whitespace, and
\* is the input's allowed characters in their order, less a leading and a
\* trailing run of whitespace.
C20_SanitizedShape ==
    sanPc \in {"once", "twice"} =>
        LET kept == SelectSeq(sanInput, AllowedChar)
            n == Len(sanOutput) IN
        /\ \A i \in 1..n : AllowedChar(sanOutput[i])
        /\ n > 0 => (sanOutput[1] \notin Whitespace
                     /\ sanOutput[n] \notin Whitespace)
        /\ \E i \in 0..Len(kept) :
               /\ i + n <= Len(kept)
               /\ SubSeq(kept, i + 1, i + n) = sanOutput
               /\ \A k \in 1..i : kept[k] \in Whitespace
               /\ \A k \in (i + n + 1)..Len(kept) : kept[k] \in Whitespace

\* C20 witness: an output with a leading newline, a control byte and an "A"
\* has been sanitized to "A".
C20_Witness ==
    /\ sanPc = "once"
    /\ sanInput = <<10, 1, 65>>
    /\ sanOutput = <<65>>

\* C16: no two calls of saveCode generate the same file name.
C16_DistinctStagingPaths ==
    \A p, q \in Procs :
        (p # q /\ filename[p] # NoFile /\ filename[q] # NoFile) =>
            filename[p] # filename[q]

\* C17: a run that isolate stopped for exceeding its time limit (status TO
\* in the metadata record, non-zero exit of isolate --run) returns the
\* time-limit-exceeded status with the time and memory of the record.
C17_TimeoutCarriesUsage ==
    \A p \in Procs :
        (pc[p] = "cleanup" /\ LastStep(p) = "run" /\ StepFailed(p, {"run"})
         /\ meta[BoxId] # NoMeta /\ meta[BoxId].status = "TO") =>
            /\ retErr[p] = ""
            /\ result[p].Status = "TO"
            /\ result[p].Time = meta[BoxId].time
            /\ result[p].Memory = Atoi(meta[BoxId].maxrss)

\* ------------------------------------------------------- specifications

Init == InitIsolate /\ InitDocker /\ InitSanitizeOff /\ InitMemoryOff

\* The process-sandbox judge serving NumSubmissions concurrent requests.
SpecIsolate == Init /\ [][NextIsolate]_vars

\* The container-sandbox judge serving one request.
SpecDocker == Init /\ [][NextDocker]_vars

\* sanitizeOutput applied to every output of at most MaxOutputLen characters.
InitOutputs == InitIsolate /\ InitDocker /\ InitSanitize /\ InitMemoryOff

SpecSanitize == InitOutputs /\ [][NextSanitize]_vars

\* executeWithDocker on every pair of submissions that differ only in
\* memory_limit.
InitPairs == InitIsolate /\ InitDocker /\ InitSanitizeOff /\ InitMemory

SpecMemory == InitPairs /\ [][NextMemory]_vars

====
